---- MODULE Spec2Model ----
(***************************************************************************)
(* Model of pipewire/src/registry.rs: the registry proxy, the listener     *)
(* builder, the Listener handle and its release, the dispatch of the raw   *)
(* "global" / "global_remove" events to the boxed closures, and the pure   *)
(* parts (ObjectType catalog, Permission flags, GlobalObject::new).        *)
(*                                                                         *)
(* Model of pipewire/src/bin/pw-mon.rs: the monitor process, from startup  *)
(* through the run loop to the release of its locals and the exit code.    *)
(*                                                                         *)
(* The specifications of the module:                                       *)
(*   Spec       the listener state machine (builder, register, dispatch,   *)
(*              release), driven by events arriving from the remote        *)
(*              registry.                                                  *)
(*   SpecFn     the pure functions, applied to inputs drawn from bounded   *)
(*              sets.                                                      *)
(*   SpecMon    the monitor process; its registry subscription is the      *)
(*              listener state machine of Spec, slot 1.                    *)
(*   SpecMonFair  SpecMon with the progress the run loop and the           *)
(*              sequential code of monitor() guarantee.                    *)
(***************************************************************************)
EXTENDS Integers, Sequences, FiniteSets, TLC

VARIABLES
    builder,    \* per slot: the ListenerLocalBuilder (state, cbs)
    listeners,  \* per slot: the Listener (events table, data box, allocation)
    hooks,      \* the registry proxy's listener list: linked hooks, in order
    arrived,    \* every raw event the remote registry has sent, in order
    nDispatched,\* how many events of `arrived` the run loop has dispatched
    calls,      \* per slot: the closure invocations made, in order
    supplied,   \* per slot: the closures handed to global(): last, earlier
    panicked,   \* NoPanic, or which handler panicked at which event
    fn,         \* SpecFn: the last pure-function application (op, args, out)
    mon         \* SpecMon: the monitor process of pw-mon (position, locals,
                \* reference counts, signals, quit requests, exit code)

vars == <<builder, listeners, hooks, arrived, nDispatched, calls, supplied,
          panicked, fn, mon>>

lvars == <<builder, listeners, hooks, arrived, nDispatched, calls, supplied,
           panicked, mon>>

----------------------------------------------------------------------------
(* Bounds of the model.                                                    *)

\* total number of raw events the remote registry sends in a run
MaxEvents == 2
\* raw permission values 0..MaxRaw are tried exhaustively (0o777 = 511)
MaxRaw == 511

----------------------------------------------------------------------------
(* Bitwise operations on u32 values (Permission: u32, registry.rs 148).    *)

\* number of bits of a u32
Width == 32

RECURSIVE BitAndN(_, _, _)
BitAndN(a, b, n) ==
    IF n = 0 THEN 0
    ELSE (IF a % 2 = 1 /\ b % 2 = 1 THEN 1 ELSE 0)
         + 2 * BitAndN(a \div 2, b \div 2, n - 1)

\* a & b
BitAnd(a, b) == BitAndN(a, b, Width)

RECURSIVE BitAndNotN(_, _, _)
BitAndNotN(a, b, n) ==
    IF n = 0 THEN 0
    ELSE (IF a % 2 = 1 /\ b % 2 = 0 THEN 1 ELSE 0)
         + 2 * BitAndNotN(a \div 2, b \div 2, n - 1)

\* a & !b
BitAndNot(a, b) == BitAndNotN(a, b, Width)

----------------------------------------------------------------------------
(* Permission (bitflags!, registry.rs 147-154).                            *)

R == \o400
W == \o200
X == \o100
M == \o010

\* Permission::all().bits(): the union of the declared flags
Permission_all == R + W + X + M

NoPermission == [some |-> FALSE, bits |-> 0]

\* mutant: from_bits_truncate in place of from_bits (unknown bits dropped)
Permission_from_bits_truncate(bits) ==
    [some |-> TRUE, bits |-> BitAnd(bits, Permission_all)]

\* bitflags from_bits: Some(Permission { bits }) iff no bit outside all()
Permission_from_bits(bits) ==
    IF BitAndNot(bits, Permission_all) = 0
    THEN [some |-> TRUE, bits |-> bits]
    ELSE NoPermission

\* bitflags contains: (self.bits & other.bits) == other.bits
Permission_contains(p, flag) == BitAnd(p.bits, flag) = flag

----------------------------------------------------------------------------
(* ObjectType (object_type!, registry.rs 157-222).                         *)

\* the macro invocation: (Id, API version), in the order written
Catalog ==
    << <<"Client", 3>>, <<"ClientEndpoint", 0>>, <<"ClientNode", 3>>,
       <<"ClientSession", 0>>, <<"Core", 3>>, <<"Device", 3>>,
       <<"Endpoint", 0>>, <<"EndpointLink", 0>>, <<"EndpointStream", 0>>,
       <<"Factory", 3>>, <<"Link", 3>>, <<"Metadata", 3>>, <<"Module", 3>>,
       <<"Node", 3>>, <<"Port", 3>>, <<"Profiler", 3>>, <<"Registry", 3>>,
       <<"Session", 0>> >>

\* enum ObjectType { $($x,)* Other(String) }: a closed variant carries no string
Variant(x) == [tag |-> x, s |-> ""]
Other(s) == [tag |-> "Other", s |-> s]

ClosedVariants == { Variant(Catalog[i][1]) : i \in DOMAIN Catalog }

\* concat!("PipeWire:Interface:", stringify!($x))
InterfaceName(x) == "PipeWire:Interface:" \o x

\* mutant: the fallback arm forgets the name it was given
from_str_forgets_name(s) ==
    LET hits == { i \in DOMAIN Catalog : InterfaceName(Catalog[i][1]) = s }
    IN  IF hits = {}
        THEN Other("")
        ELSE Variant(Catalog[CHOOSE i \in hits : \A j \in hits : i <= j][1])

\* match s { $(concat!(..) => ObjectType::$x,)* s => Other(s.to_string()) }
\* the arms are tried in the order written: the first matching arm wins
from_str(s) ==
    LET hits == { i \in DOMAIN Catalog : InterfaceName(Catalog[i][1]) = s }
    IN  IF hits = {}
        THEN Other(s)
        ELSE Variant(Catalog[CHOOSE i \in hits : \A j \in hits : i <= j][1])

\* mutant: to_str without the interface prefix
to_str_no_prefix(t) == IF t.tag = "Other" THEN t.s ELSE t.tag

\* match self { $(ObjectType::$x => concat!(..),)* Other(s) => s }
to_str(t) ==
    IF t.tag = "Other"
    THEN t.s
    ELSE InterfaceName(t.tag)

\* mutant: Other(_) answers version 0 instead of panicking
client_version_other_zero(t) ==
    [panic |-> FALSE, msg |-> "",
     v |-> IF t.tag = "Other" THEN 0
           ELSE Catalog[CHOOSE i \in DOMAIN Catalog :
                          Catalog[i][1] = t.tag][2]]

\* match self { $(ObjectType::$x => $version,)* Other(_) => panic!(..) }
client_version(t) ==
    IF t.tag = "Other"
    THEN [panic |-> TRUE, msg |-> "Invalid object type", v |-> 0]
    ELSE [panic |-> FALSE, msg |-> "",
          v |-> Catalog[CHOOSE i \in DOMAIN Catalog : Catalog[i][1] = t.tag][2]]

----------------------------------------------------------------------------
(* GlobalObject::new (registry.rs 233-257).                                *)

NullProps == "null"

\* mutant: the version is taken from the catalog, not from the event
GlobalObject_new_catalog_version(id, permissions, type_, version, props) ==
    LET ty   == from_str(type_)
        perm == Permission_from_bits(permissions)
    IN  IF ~perm.some
        THEN [panic |-> TRUE, msg |-> "invalid permissions"]
        ELSE [panic |-> FALSE, msg |-> "",
              id |-> id,
              permissions |-> perm,
              type_ |-> ty,
              version |-> IF ty.tag = "Other" THEN version
                          ELSE Catalog[CHOOSE i \in DOMAIN Catalog :
                                         Catalog[i][1] = ty.tag][2],
              props |-> IF props = NullProps
                        THEN [some |-> FALSE, dict |-> NullProps]
                        ELSE [some |-> TRUE, dict |-> props]]

\* mutant: unknown permission bits are dropped instead of being fatal
GlobalObject_new_truncates(id, permissions, type_, version, props) ==
    [panic |-> FALSE, msg |-> "",
     id |-> id,
     permissions |-> Permission_from_bits_truncate(permissions),
     type_ |-> from_str(type_),
     version |-> version,
     props |-> IF props = NullProps
               THEN [some |-> FALSE, dict |-> NullProps]
               ELSE [some |-> TRUE, dict |-> props]]

\* the result of new(): either the panic of expect("invalid permissions")
\* or the descriptor
GlobalObject_new(id, permissions, type_, version, props) ==
    LET ty   == from_str(type_)
        perm == Permission_from_bits(permissions)
    IN  IF ~perm.some
        THEN [panic |-> TRUE, msg |-> "invalid permissions"]
        ELSE [panic |-> FALSE, msg |-> "",
              id |-> id,
              permissions |-> perm,
              type_ |-> ty,
              version |-> version,
              props |-> IF props = NullProps
                        THEN [some |-> FALSE, dict |-> NullProps]
                        ELSE [some |-> TRUE, dict |-> props]]

----------------------------------------------------------------------------
(* Raw events of the registry (the pw_registry_events ABI, 88-105).        *)

\* a C string: valid UTF-8 text, or bytes CStr::to_str() rejects
Utf8(s) == [utf8 |-> TRUE, s |-> s]
NotUtf8 == [utf8 |-> FALSE, s |-> ""]

Added(id, permissions, type_, version, props) ==
    [kind |-> "global", id |-> id, permissions |-> permissions,
     type_ |-> type_, version |-> version, props |-> props]

Removed(id) ==
    [kind |-> "global_remove", id |-> id, permissions |-> 0,
     type_ |-> Utf8(""), version |-> 0, props |-> NullProps]

\* the added events the remote sends in the model: a known kind without
\* props, an unknown kind with props and a version of its own, an event with
\* a permission bit outside R|W|X|M, an event whose name is not UTF-8
AddedEvents ==
    { Added(5, \o700, Utf8("PipeWire:Interface:Node"), 3, NullProps),
      Added(6, \o410, Utf8("PipeWire:Interface:Badger"), 4, "dict"),
      Added(7, \o701, Utf8("PipeWire:Interface:Node"), 3, NullProps),
      Added(8, \o700, NotUtf8, 3, NullProps) }

RemovedEvents == { Removed(5), Removed(6) }

Events == AddedEvents \cup RemovedEvents

----------------------------------------------------------------------------
(* Builder, Listener and the registry's hook list.                         *)

Slots == {1}

None == "none"
GlobalClosures == {"g1", "g2"}
RemoveClosures == {"r1", "r2"}

\* const VERSION_REGISTRY_EVENTS: u32 = 0
VERSION_REGISTRY_EVENTS == 0

\* ListenerLocalCallbacks::default(): both Options are None
ListenerLocalCallbacks_default == [global |-> None, global_remove |-> None]

NoBuilder == [state |-> "none", cbs |-> ListenerLocalCallbacks_default]

\* Addresses.  A value lives on the heap or inside a place that holds its
\* owner (a stack frame, a variable); `at` says which.
NoAddr == [l |-> 0, what |-> "", at |-> "null"]

\* the places a Listener value is held in after register() returned it
Places == {"caller", "elsewhere"}

\* mutant: the value is stored inline in its owner, in the place `at`
Box_new_inline(l, what, at) == [l |-> l, what |-> what, at |-> at]

\* Box::new / Box::pin: the value gets a heap block of its own, wherever
\* the Box that owns it is held
Box_new(l, what, at) == [l |-> l, what |-> what, at |-> "heap"]

\* a move of the owner to another place: what is stored inline in the
\* owner moves with it, a heap block stays where it is
move_addr(a, to) == IF a.at = "heap" THEN a ELSE [a EXCEPT !.at = to]

NoListener ==
    [state |-> "none",
     events |-> [version |-> 0, global |-> FALSE, global_remove |-> FALSE],
     data |-> ListenerLocalCallbacks_default,
     eventsAlloc |-> FALSE, hookAlloc |-> FALSE, dataAlloc |-> FALSE,
     regAt |-> 0, relAt |-> 0, arrAtRel |-> 0, inCall |-> 0,
     loc |-> "none",
     eventsAt |-> NoAddr, hookAt |-> NoAddr, dataAt |-> NoAddr,
     reg |-> [hook |-> NoAddr, events |-> NoAddr, data |-> NoAddr]]

NoneSupplied == [last |-> None, earlier |-> {}]

NoPanic == [by |-> 0, at |-> 0, msg |-> ""]

\* the single thread is free to run user code: the process has not died in
\* a panic, no Listener is between its drop() body and its field drops, and
\* no closure is in the middle of a call
Idle ==
    /\ panicked = NoPanic
    /\ \A l \in Slots : listeners[l].state # "unlinked"
    /\ \A l \in Slots : listeners[l].inCall = 0

Linked(l) == \E i \in DOMAIN hooks : hooks[i] = l

\* Registry::add_listener_local: a builder with default callbacks
add_listener_local(l) ==
    /\ Idle
    /\ builder[l].state = "none"
    /\ builder' = [builder EXCEPT
                     ![l] = [state |-> "building",
                             cbs |-> ListenerLocalCallbacks_default]]
    /\ UNCHANGED <<listeners, hooks, arrived, nDispatched, calls, supplied,
                   panicked, fn, mon>>

\* mutant: a closure already stored is kept (first write wins)
set_global_keeps_first(cbs, f) ==
    IF cbs.global = None THEN [cbs EXCEPT !.global = f] ELSE cbs

\* self.cbs.global = Some(Box::new(global))
set_global(cbs, f) == [cbs EXCEPT !.global = f]

\* self.cbs.global_remove = Some(Box::new(global_remove))
set_global_remove(cbs, f) == [cbs EXCEPT !.global_remove = f]

\* ListenerLocalBuilder::global
global(l, f) ==
    /\ Idle
    /\ builder[l].state = "building"
    /\ builder' = [builder EXCEPT ![l].cbs = set_global(@, f)]
    /\ supplied' = [supplied EXCEPT
                      ![l] = [last |-> f,
                              earlier |-> IF @.last = None THEN @.earlier
                                          ELSE @.earlier \cup {@.last}]]
    /\ UNCHANGED <<listeners, hooks, arrived, nDispatched, calls, panicked,
                   fn, mon>>

\* ListenerLocalBuilder::global_remove
global_remove(l, f) ==
    /\ Idle
    /\ builder[l].state = "building"
    /\ builder' = [builder EXCEPT ![l].cbs = set_global_remove(@, f)]
    /\ UNCHANGED <<listeners, hooks, arrived, nDispatched, calls, supplied,
                   panicked, fn, mon>>

\* the builder goes out of scope without register(): ListenerLocalBuilder
\* has no Drop of its own, its closures are freed with it, and nothing was
\* ever handed to the registry
BuilderDiscard(l) ==
    /\ Idle
    /\ builder[l].state = "building"
    /\ builder' = [builder EXCEPT ![l].state = "discarded"]
    /\ UNCHANGED <<listeners, hooks, arrived, nDispatched, calls, supplied,
                   panicked, fn, mon>>

\* mutant: both slots are wired whatever closures were supplied
events_table_all_wired(cbs) ==
    [version |-> VERSION_REGISTRY_EVENTS,
     global |-> TRUE,
     global_remove |-> TRUE]

\* mutant: the global_remove slot is never wired
events_table_forgets_remove(cbs) ==
    [version |-> VERSION_REGISTRY_EVENTS,
     global |-> cbs.global # None,
     global_remove |-> FALSE]

\* the pw_registry_events block built by register(): zeroed, the version
\* set, a slot wired only when the closure is Some
events_table(cbs) ==
    [version |-> VERSION_REGISTRY_EVENTS,
     global |-> cbs.global # None,
     global_remove |-> cbs.global_remove # None]

\* mutant: the hook is linked twice
add_listener_twice(hs, l) == Append(Append(hs, l), l)

\* pw_registry add_listener (spa_hook_list_append): the hook goes to the
\* tail of the proxy's listener list
add_listener(hs, l) == Append(hs, l)

\* ListenerLocalBuilder::register: consumes the builder, boxes the table,
\* the hook and the callbacks, registers them and returns the Listener.
\* add_listener is given the addresses the three values have in the frame
\* of register() (data is the pointer of Box::into_raw, owned again through
\* Box::from_raw); the Listener built of the three boxes is then moved to
\* the caller.
register(l) ==
    /\ Idle
    /\ builder[l].state = "building"
    /\ builder' = [builder EXCEPT ![l].state = "consumed"]
    /\ LET e == Box_new(l, "events", "register")
           data == Box_new(l, "data", "register")
           listener == Box_new(l, "hook", "register")
       IN  listeners' = [listeners EXCEPT
                           ![l] = [state |-> "registered",
                                   events |-> events_table(builder[l].cbs),
                                   data |-> builder[l].cbs,
                                   eventsAlloc |-> TRUE,
                                   hookAlloc |-> TRUE,
                                   dataAlloc |-> TRUE,
                                   regAt |-> nDispatched,
                                   relAt |-> 0,
                                   arrAtRel |-> 0,
                                   inCall |-> 0,
                                   loc |-> "caller",
                                   eventsAt |-> move_addr(e, "caller"),
                                   hookAt |-> move_addr(listener, "caller"),
                                   dataAt |-> move_addr(data, "caller"),
                                   reg |-> [hook |-> listener,
                                            events |-> e,
                                            data |-> data]]]
    /\ hooks' = add_listener(hooks, l)
    /\ UNCHANGED <<arrived, nDispatched, calls, supplied, panicked, fn, mon>>

\* the caller moves the registered Listener to another place (into a
\* struct, a collection, another variable)
MoveListener(l) ==
    /\ Idle
    /\ listeners[l].state = "registered"
    /\ \E to \in Places \ {listeners[l].loc} :
          listeners' = [listeners EXCEPT
                          ![l].loc = to,
                          ![l].eventsAt = move_addr(@, to),
                          ![l].hookAt = move_addr(@, to),
                          ![l].dataAt = move_addr(@, to)]
    /\ UNCHANGED <<builder, hooks, arrived, nDispatched, calls, supplied,
                   panicked, fn, mon>>

----------------------------------------------------------------------------
(* Dispatch of a raw event to the linked hooks.                            *)

NoObject == [panic |-> FALSE, msg |-> ""]

\* unsafe extern "C" fn registry_events_global: decode the name, build the
\* GlobalObject, then look the closure up and call it.  The result is the
\* panic that ends the handler or the closure call it makes.
registry_events_global(data, ev) ==
    IF ~ev.type_.utf8
    THEN [panic |-> TRUE, msg |-> "Utf8Error", closure |-> None,
          arg |-> NoObject]
    ELSE LET obj == GlobalObject_new(ev.id, ev.permissions, ev.type_.s,
                                     ev.version, ev.props)
         IN  IF obj.panic
             THEN [panic |-> TRUE, msg |-> obj.msg, closure |-> None,
                   arg |-> NoObject]
             ELSE IF data.global = None
             THEN [panic |-> TRUE, msg |-> "unwrap on None",
                   closure |-> None, arg |-> NoObject]
             ELSE [panic |-> FALSE, msg |-> "", closure |-> data.global,
                   arg |-> obj]

\* unsafe extern "C" fn registry_events_global_remove
registry_events_global_remove(data, id) ==
    IF data.global_remove = None
    THEN [panic |-> TRUE, msg |-> "unwrap on None", closure |-> None,
          arg |-> [id |-> id]]
    ELSE [panic |-> FALSE, msg |-> "", closure |-> data.global_remove,
          arg |-> [id |-> id]]

\* the slot of the events table an event of this kind goes through
SlotWired(events, kind) ==
    IF kind = "global" THEN events.global ELSE events.global_remove

RunHandler(data, ev) ==
    IF ev.kind = "global"
    THEN registry_events_global(data, ev)
    ELSE registry_events_global_remove(data, ev.id)

\* The registry proxy emits event number n to its listener list: every
\* linked hook in turn, through the slot of its events table when the slot
\* is wired.  A panic in a handler leaves an extern "C" function, which is
\* undefined behaviour: the build aborts the process or unwinds out of the
\* run loop.  In each outcome no later hook is called and no later event is
\* dispatched.  acc is [calls, panicked].
RECURSIVE Emit(_, _, _, _)
Emit(hs, ev, n, acc) ==
    IF hs = <<>> \/ acc.panicked # NoPanic
    THEN acc
    ELSE LET l == Head(hs)
             r == RunHandler(listeners[l].data, ev)
             live == listeners[l].eventsAlloc /\ listeners[l].dataAlloc
         IN  Emit(Tail(hs), ev, n,
                  IF ~SlotWired(listeners[l].events, ev.kind)
                  THEN acc
                  ELSE IF r.panic
                  THEN [acc EXCEPT
                          !.panicked = [by |-> l, at |-> n, msg |-> r.msg]]
                  ELSE [acc EXCEPT
                          !.calls[l] = Append(@, [fn |-> ev.kind,
                                                  closure |-> r.closure,
                                                  arg |-> r.arg,
                                                  n |-> n,
                                                  live |-> live])])

\* the remote registry sends one more event; it waits in the connection
\* until the run loop dispatches it
Arrive(ev) ==
    /\ panicked = NoPanic
    /\ Len(arrived) < MaxEvents
    /\ arrived' = Append(arrived, ev)
    /\ UNCHANGED <<builder, listeners, hooks, nDispatched, calls, supplied,
                   panicked, fn, mon>>

\* the run loop takes the oldest waiting event and emits it
Dispatch ==
    /\ Idle
    /\ nDispatched < Len(arrived)
    /\ LET n == nDispatched + 1
           r == Emit(hooks, arrived[n], n,
                     [calls |-> calls, panicked |-> NoPanic])
       IN  /\ nDispatched' = n
           /\ calls' = r.calls
           /\ panicked' = r.panicked
    /\ UNCHANGED <<builder, listeners, hooks, arrived, supplied, fn, mon>>

----------------------------------------------------------------------------
(* Release of a Listener.                                                  *)

\* spa::hook::remove: unlinks the hook from the list it is spliced into
hook_remove(hs, l) == SelectSeq(hs, LAMBDA h : h # l)

\* mutant: drop() does not unlink the hook
Listener_drop_keeps_hook(hs, l) == hs

\* impl Drop for Listener: fn drop(&mut self) { spa::hook::remove(..) }
Listener_drop(hs, l) == hook_remove(hs, l)

\* the drop glue that follows drop(): the fields events, listener, data
\* are dropped in declaration order, freeing the three boxes
drop_fields(lr) ==
    [lr EXCEPT !.eventsAlloc = FALSE, !.hookAlloc = FALSE,
               !.dataAlloc = FALSE, !.state = "dropped"]

\* a Listener goes out of scope: the body of drop() runs.  After a panic
\* in a handler this is the outcome in which the panic unwinds out of the
\* run loop and the caller's Listener is dropped on the way; in the other
\* outcome the process has aborted and nothing runs any more.
ListenerDrop(l) ==
    /\ \A k \in Slots : listeners[k].state # "unlinked"
    /\ \A k \in Slots : listeners[k].inCall = 0
    /\ listeners[l].state = "registered"
    /\ hooks' = Listener_drop(hooks, l)
    /\ listeners' = [listeners EXCEPT ![l].state = "unlinked",
                                      ![l].relAt = nDispatched,
                                      ![l].arrAtRel = Len(arrived)]
    /\ UNCHANGED <<builder, arrived, nDispatched, calls, supplied, panicked,
                   fn, mon>>

\* ... and then its fields are dropped
ListenerDropFields(l) ==
    /\ listeners[l].state = "unlinked"
    /\ listeners' = [listeners EXCEPT ![l] = drop_fields(@)]
    /\ UNCHANGED <<builder, hooks, arrived, nDispatched, calls, supplied,
                   panicked, fn, mon>>

\* The closure called for the next event releases its own Listener: the
\* closures are 'static, so the caller can share the Listener with them
\* (an Rc<RefCell<Option<Listener>>> filled after register()) and a closure
\* can take() it.  The event is emitted as in Dispatch; inside the call of
\* l's closure the body of drop() runs, and the closure is still running.
DispatchReleasing(l) ==
    /\ Idle
    /\ nDispatched < Len(arrived)
    /\ listeners[l].state = "registered"
    /\ LET n == nDispatched + 1
           r == Emit(hooks, arrived[n], n,
                     [calls |-> calls, panicked |-> NoPanic])
       IN  /\ r.panicked = NoPanic
           /\ Len(r.calls[l]) > Len(calls[l])
           /\ nDispatched' = n
           /\ calls' = r.calls
           /\ hooks' = Listener_drop(hooks, l)
           /\ listeners' = [listeners EXCEPT ![l].state = "unlinked",
                                             ![l].relAt = n,
                                             ![l].arrAtRel = Len(arrived),
                                             ![l].inCall = n]
    /\ UNCHANGED <<builder, arrived, supplied, panicked, fn, mon>>

\* the closure that released its own Listener runs on after the drop glue
\* freed the box it lives in and the callbacks box the handler borrows:
\* a use after free.  Either nothing notices and the call returns to the
\* run loop, or the process dies in the call.
CallbackReturn(l) ==
    /\ panicked = NoPanic
    /\ listeners[l].inCall # 0
    /\ listeners[l].state = "dropped"
    /\ \E dies \in BOOLEAN :
          IF dies
          THEN /\ panicked' = [by |-> l, at |-> listeners[l].inCall,
                               msg |-> "use after free"]
               /\ UNCHANGED listeners
          ELSE /\ listeners' = [listeners EXCEPT ![l].inCall = 0]
               /\ UNCHANGED panicked
    /\ UNCHANGED <<builder, hooks, arrived, nDispatched, calls, supplied, fn,
                   mon>>

----------------------------------------------------------------------------
(* The listener state machine.                                             *)

NoFn == [op |-> "none"]

\* a reference-counted owner (Arc<Registry>, MainLoop): strong and weak
\* handles alive
NoRc == [strong |-> 0, weak |-> 0]

\* the monitor process before main() calls monitor()
MonInit ==
    [pc |-> "start",        \* the statement monitor() is at
     locals |-> <<>>,       \* the live locals that own something, as declared
     todo |-> <<>>,         \* leaving monitor(): the locals still to drop
     loop |-> NoRc,         \* the MainLoop
     reg |-> NoRc,          \* the Arc<Registry>
     hasRegistry |-> FALSE, \* core.get_registry() was called
     proxyDestroyed |-> 0,  \* calls of pw_proxy_destroy on the registry proxy
     sigPending |-> {},     \* signals delivered, their source not yet run
     sigSeen |-> {},        \* signals delivered while the loop was running
     quitBy |-> {},         \* who asked the loop to quit
     errSeen |-> {},        \* the ids of the core errors logged
     ran |-> FALSE,         \* main_loop.run() was entered
     failed |-> "none",     \* the startup step that failed
     result |-> "none",     \* how monitor() was left: "Ok", "Err", "panic"
     exit |-> -1]           \* the exit status of the process, -1: running

Init ==
    /\ builder = [l \in Slots |-> NoBuilder]
    /\ listeners = [l \in Slots |-> NoListener]
    /\ hooks = <<>>
    /\ arrived = <<>>
    /\ nDispatched = 0
    /\ calls = [l \in Slots |-> <<>>]
    /\ supplied = [l \in Slots |-> NoneSupplied]
    /\ panicked = NoPanic
    /\ fn = NoFn
    /\ mon = MonInit

Next ==
    \/ \E l \in Slots : add_listener_local(l)
    \/ \E l \in Slots, f \in GlobalClosures : global(l, f)
    \/ \E l \in Slots, f \in RemoveClosures : global_remove(l, f)
    \/ \E l \in Slots : register(l)
    \/ \E l \in Slots : BuilderDiscard(l)
    \/ \E l \in Slots : MoveListener(l)
    \/ \E ev \in Events : Arrive(ev)
    \/ Dispatch
    \/ \E l \in Slots : ListenerDrop(l)
    \/ \E l \in Slots : ListenerDropFields(l)
    \/ \E l \in Slots : DispatchReleasing(l)
    \/ \E l \in Slots : CallbackReturn(l)

Spec == Init /\ [][Next]_vars

----------------------------------------------------------------------------
(* The monitor (pw-mon.rs): reference counts, the closures, the `?`.       *)

\* Arc::new / MainLoop::new: one strong handle, held by the local
Rc_new == [strong |-> 1, weak |-> 0]

\* mutant: the closure captures a clone of the owner, a strong handle
Rc_downgrade_clones(a) == [a EXCEPT !.strong = @ + 1]

\* Arc::downgrade / main_loop.downgrade(): one more weak handle, the strong
\* count is left alone
Rc_downgrade(a) == [a EXCEPT !.weak = @ + 1]

\* a strong handle goes out of scope
Rc_drop(a) == [a EXCEPT !.strong = @ - 1]

\* a weak handle is freed with the closure that captured it
Weak_drop(a) == [a EXCEPT !.weak = @ - 1]

\* weak.upgrade(): Some(strong handle) iff a strong handle is still alive
Weak_upgrade(a) == a.strong > 0

Signals == {"SIGINT", "SIGTERM"}

\* the ids core error notifications carry: 0 is the core connection itself
ErrorIds == {0, 1}

\* mutant: the signal closure does not ask the loop to quit
sig_closure_ignores(resolves) == [quit |-> FALSE, out |-> {}]

\* move || { if let Some(main_loop) = main_loop_weak.upgrade() { quit } }
sig_closure(resolves) == [quit |-> resolves, out |-> {}]

\* mutant: any error id asks the loop to quit
error_closure_any_id(id, resolves) ==
    [quit |-> resolves, out |-> {"eprintln"}]

\* .error(move |id, seq, res, message| { eprintln!(..); if id == 0 { if let
\* Some(main_loop) = main_loop_weak.upgrade() { main_loop.quit() } } })
error_closure(id, resolves) ==
    [quit |-> id = 0 /\ resolves, out |-> {"eprintln"}]

\* the kinds the added closure has a placeholder arm for
TodoKinds ==
    {"Node", "Port", "Module", "Device", "Factory", "Client", "Link"}

\* .global(move |obj| { if let Some(_registry) = registry_weak.upgrade() {
\* match obj.type_ { Node | .. | Link => {} _ => { dbg!(obj); } } } })
global_closure(obj, resolves) ==
    [quit |-> FALSE,
     out |-> IF resolves /\ obj.type_.tag \notin TodoKinds
             THEN {"dbg"} ELSE {}]

\* .global_remove(|id| { println!(..); println!(..) }): captures nothing
global_remove_closure(id) == [quit |-> FALSE, out |-> {"println"}]

\* mutant: a failed step is ignored
question_mark_ignores(ok) == "continue"

\* expr?: the value on Ok, an early return of the error on Err
question_mark(ok) == IF ok THEN "continue" ELSE "return"

\* mutant: locals dropped in the order they were declared
drop_order_forward(locals) == locals

\* locals of a function are dropped in the reverse of their declaration
\* order, on return and on unwinding alike
drop_order(locals) ==
    [i \in 1 .. Len(locals) |-> locals[Len(locals) + 1 - i]]

\* mutant: dropping the Registry does not destroy the proxy
Registry_drop_leaks(n) == n

\* impl Drop for Registry: pw_proxy_destroy(self.0), counted
Registry_drop(n) == n + 1

\* main(): monitor()? then Ok(()): 0 on Ok, 1 on Err; 101 when a panic
\* unwound out of main
exit_code(result) ==
    IF result = "Ok" THEN 0 ELSE IF result = "Err" THEN 1 ELSE 101

\* what the monitor does not touch in the steps of its own
svars == <<builder, listeners, hooks, arrived, nDispatched, calls, supplied,
           panicked, fn>>

\* monitor() is left: with Ok, with the error of a failed startup step, or
\* by a panic that unwinds; the locals alive are dropped next
Leave(m, result) ==
    [m EXCEPT !.pc = "teardown", !.result = result,
              !.todo = drop_order(m.locals)]

\* a startup step has answered: Err(..) is remembered as the failed step
Answered(m, step, ok) == [m EXCEPT !.failed = IF ok THEN @ ELSE step]

----------------------------------------------------------------------------
(* The pure functions, applied to inputs drawn from bounded sets: each     *)
(* behaviour of SpecFn applies one function to one input and records it.   *)

\* the interface names of the 18 kinds of the catalog, as the remote sends them
KnownNames ==
    { "PipeWire:Interface:Client", "PipeWire:Interface:ClientEndpoint",
      "PipeWire:Interface:ClientNode", "PipeWire:Interface:ClientSession",
      "PipeWire:Interface:Core", "PipeWire:Interface:Device",
      "PipeWire:Interface:Endpoint", "PipeWire:Interface:EndpointLink",
      "PipeWire:Interface:EndpointStream", "PipeWire:Interface:Factory",
      "PipeWire:Interface:Link", "PipeWire:Interface:Metadata",
      "PipeWire:Interface:Module", "PipeWire:Interface:Node",
      "PipeWire:Interface:Port", "PipeWire:Interface:Profiler",
      "PipeWire:Interface:Registry", "PipeWire:Interface:Session" }

\* names no arm of from_str matches: unknown kinds, near misses, the empty name
UnknownNames ==
    { "PipeWire:Interface:Badger", "PipeWire:Interface:Frobnicator",
      "", "Node", "PipeWire:Interface:", "PipeWire:Interface:node",
      "pipewire:interface:Node", "PipeWire:Interface:Node ",
      "PipeWire:Interface:Other", "Other" }

NameInputs == KnownNames \cup UnknownNames

TypeInputs == ClosedVariants \cup { Other(s) : s \in NameInputs }

\* the 16 unions of the four flags, written out in decimal
ValidRaw ==
    { r + w + x + m : r \in {0, 256}, w \in {0, 128}, x \in {0, 64},
                      m \in {0, 8} }

\* every raw value up to MaxRaw, and a few with high bits set
RawInputs == (0 .. MaxRaw) \cup {\o1000, \o1710, 1073741824, 2147483647}

\* raw permissions tried in GlobalObject::new: every valid one, some invalid
NewRawInputs == ValidRaw \cup {1, \o701, \o777, \o1000}

IdInputs == {0, 5, 2147483647}
VersionInputs == {0, 3, 4}
PropsInputs == {NullProps, "dict"}

FnFromStr ==
    /\ fn = NoFn
    /\ UNCHANGED lvars
    /\ \E s \in NameInputs :
        fn' = [op |-> "from_str", s |-> s, t |-> from_str(s)]

FnToStr ==
    /\ fn = NoFn
    /\ UNCHANGED lvars
    /\ \E t \in TypeInputs :
        fn' = [op |-> "to_str", t |-> t, s |-> to_str(t)]

FnRoundTrip ==
    /\ fn = NoFn
    /\ UNCHANGED lvars
    /\ \E t \in ClosedVariants :
        fn' = [op |-> "round_trip", t |-> t, s |-> to_str(t),
               back |-> from_str(to_str(t))]

FnClientVersion ==
    /\ fn = NoFn
    /\ UNCHANGED lvars
    /\ \E t \in TypeInputs :
        fn' = [op |-> "client_version", t |-> t, res |-> client_version(t)]

FnFromBits ==
    /\ fn = NoFn
    /\ UNCHANGED lvars
    /\ \E raw \in RawInputs :
        fn' = [op |-> "from_bits", raw |-> raw,
               res |-> Permission_from_bits(raw)]

FnNew ==
    /\ fn = NoFn
    /\ UNCHANGED lvars
    /\ \E id \in IdInputs, raw \in NewRawInputs, s \in NameInputs,
       version \in VersionInputs, props \in PropsInputs :
        fn' = [op |-> "new", id |-> id, raw |-> raw, s |-> s,
               version |-> version, props |-> props,
               res |-> GlobalObject_new(id, raw, s, version, props)]

\* the closures of the monitor that captured a weak handle
ClosureInputs == Signals \cup {"error", "global"}

\* One closure of the monitor is built and run: the owner is created, the
\* closure captures a handle of it, the owner's own handle is dropped or
\* not, and then the closure runs and tries to resolve what it captured.
FnClosure ==
    /\ fn = NoFn
    /\ UNCHANGED lvars
    /\ \E which \in ClosureInputs, ownerDropped \in BOOLEAN,
          id \in ErrorIds, s \in NameInputs :
        LET captured == Rc_downgrade(Rc_new)
            owner == IF ownerDropped THEN Rc_drop(captured) ELSE captured
            resolves == Weak_upgrade(owner)
            obj == GlobalObject_new(5, R, s, 3, NullProps)
            r == IF which \in Signals THEN sig_closure(resolves)
                 ELSE IF which = "error" THEN error_closure(id, resolves)
                 ELSE global_closure(obj, resolves)
        IN  fn' = [op |-> "closure", which |-> which,
                   ownerDropped |-> ownerDropped, id |-> id, obj |-> obj,
                   alive |-> owner.strong > 0, resolves |-> resolves,
                   res |-> r]

NextFn ==
    \/ FnClosure
    \/ FnFromStr
    \/ FnToStr
    \/ FnRoundTrip
    \/ FnClientVersion
    \/ FnFromBits
    \/ FnNew

SpecFn == Init /\ [][NextFn]_vars

----------------------------------------------------------------------------
(* The monitor process (pw-mon.rs, monitor() and main()): startup.         *)

\* let main_loop = pw::MainLoop::new()?;
MonMainLoopNew ==
    /\ mon.pc = "start"
    /\ \E ok \in BOOLEAN :
          mon' = IF question_mark(ok) = "continue"
                 THEN [Answered(mon, "loop", ok) EXCEPT
                         !.pc = "sig_int",
                         !.locals = Append(@, "main_loop"),
                         !.loop = Rc_new]
                 ELSE Leave(Answered(mon, "loop", ok), "Err")
    /\ UNCHANGED svars

\* let _sig_int / _sig_term = main_loop.add_signal_local(sig, closure):
\* the closure captures a weak handle of the loop
MonAddSignal(sig) ==
    /\ mon.pc = (IF sig = "SIGINT" THEN "sig_int" ELSE "sig_term")
    /\ mon' = [mon EXCEPT
                 !.pc = IF sig = "SIGINT" THEN "sig_term" ELSE "context",
                 !.locals = Append(@, IF sig = "SIGINT" THEN "_sig_int"
                                      ELSE "_sig_term"),
                 !.loop = Rc_downgrade(@)]
    /\ UNCHANGED svars

\* let context = pw::Context::new(&main_loop)?;
MonContextNew ==
    /\ mon.pc = "context"
    /\ \E ok \in BOOLEAN :
          mon' = IF question_mark(ok) = "continue"
                 THEN [Answered(mon, "context", ok) EXCEPT
                         !.pc = "connect",
                         !.locals = Append(@, "context")]
                 ELSE Leave(Answered(mon, "context", ok), "Err")
    /\ UNCHANGED svars

\* let core = context.connect()?;
MonConnect ==
    /\ mon.pc = "connect"
    /\ \E ok \in BOOLEAN :
          mon' = IF question_mark(ok) = "continue"
                 THEN [Answered(mon, "connect", ok) EXCEPT
                         !.pc = "core_listener",
                         !.locals = Append(@, "core")]
                 ELSE Leave(Answered(mon, "connect", ok), "Err")
    /\ UNCHANGED svars

\* let _listener = core.add_listener_local().info(..).done(..).error(..)
\* .register(): the error closure captures a weak handle of the loop
MonCoreListener ==
    /\ mon.pc = "core_listener"
    /\ mon' = [mon EXCEPT !.pc = "get_registry",
                          !.locals = Append(@, "_listener"),
                          !.loop = Rc_downgrade(@)]
    /\ UNCHANGED svars

\* let registry = Arc::new(core.get_registry());
\* let registry_weak = Arc::downgrade(&registry);
MonGetRegistry ==
    /\ mon.pc = "get_registry"
    /\ mon' = [mon EXCEPT !.pc = "subscribe",
                          !.locals = Append(@, "registry"),
                          !.reg = Rc_downgrade(Rc_new),
                          !.hasRegistry = TRUE]
    /\ UNCHANGED svars

\* registry.add_listener_local()
MonAddListenerLocal ==
    /\ mon.pc = "subscribe"
    /\ add_listener_local(1)

\* .global(move |obj| ..): the closure "g1" that captured registry_weak
MonGlobal ==
    /\ mon.pc = "subscribe"
    /\ builder[1].cbs.global = None
    /\ global(1, "g1")

\* .global_remove(|id| ..): the closure "r1"
MonGlobalRemove ==
    /\ mon.pc = "subscribe"
    /\ builder[1].cbs.global # None
    /\ builder[1].cbs.global_remove = None
    /\ global_remove(1, "r1")

\* .register()
MonRegister ==
    /\ mon.pc = "subscribe"
    /\ builder[1].cbs.global_remove # None
    /\ register(1)

\* let _registry_listener = (the Listener); main_loop.run() is entered
MonRun ==
    /\ mon.pc = "subscribe"
    /\ listeners[1].state = "registered"
    /\ mon' = [mon EXCEPT !.pc = "run",
                          !.locals = Append(@, "_registry_listener"),
                          !.ran = TRUE]
    /\ UNCHANGED svars

----------------------------------------------------------------------------
(* The monitor process: main_loop.run().                                   *)

\* the events the remote registry sends to the monitor: a kind with a
\* placeholder arm, an unknown kind (dumped), an added event with a
\* permission bit outside R|W|X|M, a removed event
MonEvents ==
    { Added(5, \o700, Utf8("PipeWire:Interface:Node"), 3, NullProps),
      Added(6, \o410, Utf8("PipeWire:Interface:Badger"), 4, "dict"),
      Added(7, \o701, Utf8("PipeWire:Interface:Node"), 3, NullProps),
      Removed(5) }

\* the remote registry sends an event while the loop runs
MonArrive(ev) ==
    /\ mon.pc = "run"
    /\ Arrive(ev)

\* the loop dispatches a registry event to the registry listener
MonDispatch ==
    /\ mon.pc = "run"
    /\ Dispatch

\* SIGINT or SIGTERM is delivered to the process while the loop runs
MonSignal(sig) ==
    /\ mon.pc = "run"
    /\ panicked = NoPanic
    /\ sig \notin mon.sigSeen
    /\ mon' = [mon EXCEPT !.sigPending = @ \cup {sig},
                          !.sigSeen = @ \cup {sig}]
    /\ UNCHANGED svars

\* the loop runs the signal source: its closure asks the loop to quit
MonSignalDispatch(sig) ==
    /\ mon.pc = "run"
    /\ Idle
    /\ sig \in mon.sigPending
    /\ LET r == sig_closure(Weak_upgrade(mon.loop))
       IN  mon' = [mon EXCEPT !.sigPending = @ \ {sig},
                              !.quitBy = IF r.quit THEN @ \cup {sig} ELSE @]
    /\ UNCHANGED svars

\* the core proxy delivers an error notification to the error closure
MonCoreError(id) ==
    /\ mon.pc = "run"
    /\ Idle
    /\ id \notin mon.errSeen
    /\ LET r == error_closure(id, Weak_upgrade(mon.loop))
       IN  mon' = [mon EXCEPT
                     !.errSeen = IF "eprintln" \in r.out
                                 THEN @ \cup {id} ELSE @,
                     !.quitBy = IF r.quit THEN @ \cup {"error"} ELSE @]
    /\ UNCHANGED svars

\* run() returns once a quit was asked for; Ok(()) is the result
MonLoopExit ==
    /\ mon.pc = "run"
    /\ Idle
    /\ mon.quitBy # {}
    /\ mon' = Leave(mon, "Ok")
    /\ UNCHANGED svars

\* a registry handler panicked inside the extern "C" callback: the process
\* aborts there, or the panic unwinds through run() and out of monitor()
MonPanic ==
    /\ mon.pc = "run"
    /\ panicked # NoPanic
    /\ \E unwinds \in BOOLEAN :
          mon' = IF unwinds
                 THEN Leave(mon, "panic")
                 ELSE [mon EXCEPT !.pc = "exited", !.result = "abort",
                                  !.exit = 134]
    /\ UNCHANGED svars

----------------------------------------------------------------------------
(* The monitor process: leaving monitor(), and the exit of main().         *)

\* _registry_listener is dropped: the body of Listener::drop
MonListenerDrop ==
    /\ mon.pc = "teardown"
    /\ mon.todo # <<>>
    /\ Head(mon.todo) = "_registry_listener"
    /\ ListenerDrop(1)

\* ... and its fields
MonListenerDropFields ==
    /\ mon.pc = "teardown"
    /\ ListenerDropFields(1)

\* what dropping the local x does to the reference counts and the proxy
drop_local(m, x) ==
    IF x = "main_loop" THEN [m EXCEPT !.loop = Rc_drop(@)]
    ELSE IF x \in {"_sig_int", "_sig_term", "_listener"}
    THEN [m EXCEPT !.loop = Weak_drop(@)]
    ELSE IF x = "_registry_listener" THEN [m EXCEPT !.reg = Weak_drop(@)]
    ELSE IF x = "registry"
    THEN [m EXCEPT !.reg = Rc_drop(@),
                   !.proxyDestroyed = IF Rc_drop(m.reg).strong = 0
                                      THEN Registry_drop(@) ELSE @]
    ELSE m

\* the next local is dropped; for _registry_listener this is the end of
\* the release of the Listener, whose closure held registry_weak
MonDropLocal ==
    /\ mon.pc = "teardown"
    /\ mon.todo # <<>>
    /\ Head(mon.todo) = "_registry_listener" =>
           listeners[1].state = "dropped"
    /\ mon' = [drop_local(mon, Head(mon.todo)) EXCEPT
                 !.todo = Tail(@),
                 !.locals = SelectSeq(@, LAMBDA y : y # Head(mon.todo))]
    /\ UNCHANGED svars

\* main(): the result of monitor() becomes the exit status
MonExit ==
    /\ mon.pc = "teardown"
    /\ mon.todo = <<>>
    /\ mon' = [mon EXCEPT !.pc = "exited", !.exit = exit_code(mon.result)]
    /\ UNCHANGED svars

NextMon ==
    \/ MonMainLoopNew
    \/ \E sig \in Signals : MonAddSignal(sig)
    \/ MonContextNew
    \/ MonConnect
    \/ MonCoreListener
    \/ MonGetRegistry
    \/ MonAddListenerLocal
    \/ MonGlobal
    \/ MonGlobalRemove
    \/ MonRegister
    \/ MonRun
    \/ \E ev \in MonEvents : MonArrive(ev)
    \/ MonDispatch
    \/ \E sig \in Signals : MonSignal(sig)
    \/ \E sig \in Signals : MonSignalDispatch(sig)
    \/ \E id \in ErrorIds : MonCoreError(id)
    \/ MonLoopExit
    \/ MonPanic
    \/ MonListenerDrop
    \/ MonListenerDropFields
    \/ MonDropLocal
    \/ MonExit

SpecMon == Init /\ [][NextMon]_vars

\* The loop runs a ready source in a later iteration, run() returns once
\* the quit was asked for, and the sequential code after it is executed.
SpecMonFair ==
    /\ SpecMon
    /\ \A sig \in Signals : WF_vars(MonSignalDispatch(sig))
    /\ WF_vars(MonLoopExit)
    /\ WF_vars(MonPanic)
    /\ WF_vars(MonListenerDrop)
    /\ WF_vars(MonListenerDropFields)
    /\ WF_vars(MonDropLocal)
    /\ WF_vars(MonExit)

----------------------------------------------------------------------------
(* Properties of the pure functions (checked under SpecFn).                *)

\* the kinds of the catalog, by the version the catalog gives them
Version3Kinds ==
    { "Client", "ClientNode", "Core", "Device", "Factory", "Link",
      "Metadata", "Module", "Node", "Port", "Profiler", "Registry" }
Version0Kinds ==
    { "ClientEndpoint", "ClientSession", "Endpoint", "EndpointLink",
      "EndpointStream", "Session" }
KnownKinds == Version3Kinds \cup Version0Kinds

\* whether the flag (a single bit) is set in the raw value
HasBit(raw, flag) == (raw \div flag) % 2 = 1

\* C5: for every id, every raw permission value made only of bits of
\* R|W|X|M, every name, version and presence or absence of props,
\* GlobalObject::new does not panic and returns the same id, permissions
\* holding exactly the given bits, the type the name stands for (Other(name)
\* for an unknown name), the reported version (whatever the catalog's
\* version of that type) and props None exactly when the dictionary is null.
C5_GlobalObjectFields ==
    (fn.op = "new" /\ fn.raw \in ValidRaw) =>
        /\ ~fn.res.panic
        /\ fn.res.id = fn.id
        /\ fn.res.permissions.some
        /\ fn.res.permissions.bits = fn.raw
        /\ \A flag \in {R, W, X, M} :
              Permission_contains(fn.res.permissions, flag)
                  <=> HasBit(fn.raw, flag)
        /\ fn.res.type_ = from_str(fn.s)
        /\ \A k \in KnownKinds :
              fn.s = "PipeWire:Interface:" \o k => fn.res.type_ = Variant(k)
        /\ fn.s \notin KnownNames => fn.res.type_ = Other(fn.s)
        /\ fn.res.version = fn.version
        /\ (~fn.res.props.some) <=> (fn.props = NullProps)

\* the spec's end-to-end scenario: id 5, 0o700, Node, version 3, no props
C5_Witness ==
    /\ fn.op = "new"
    /\ fn.id = 5 /\ fn.raw = \o700 /\ fn.s = "PipeWire:Interface:Node"
    /\ fn.version = 3 /\ fn.props = NullProps
    /\ ~fn.res.panic
    /\ Permission_contains(fn.res.permissions, R)
    /\ Permission_contains(fn.res.permissions, W)
    /\ Permission_contains(fn.res.permissions, X)
    /\ ~Permission_contains(fn.res.permissions, M)
    /\ fn.res.type_ = Variant("Node")
    /\ ~fn.res.props.some

\* C6: for every one of the 18 closed variants V, from_str(to_str(V)) = V:
\* the name of V maps back to V, not to Other and not to another variant
\* (so no two closed variants share a name).
C6_RoundTrip ==
    /\ Cardinality(ClosedVariants) = 18
    /\ { v.tag : v \in ClosedVariants } = KnownKinds
    /\ fn.op = "round_trip" =>
          /\ fn.back = fn.t
          /\ fn.back.tag # "Other"
          /\ \A v \in ClosedVariants \ {fn.t} : to_str(v) # fn.s

C6_Witness ==
    /\ fn.op = "round_trip"
    /\ fn.t = Variant("Session")
    /\ fn.s = "PipeWire:Interface:Session"
    /\ fn.back = Variant("Session")

\* C7: from_str answers for every string; for a string S that is not the
\* name of a closed variant it answers Other(S), and to_str(Other(S)) is S
\* unchanged.
C7_UnknownName ==
    /\ fn.op = "from_str" =>
          /\ fn.t.tag \in KnownKinds \cup {"Other"}
          /\ fn.s \notin KnownNames => fn.t = Other(fn.s)
    /\ (fn.op = "to_str" /\ fn.t.tag = "Other" /\ fn.t.s \notin KnownNames)
          => fn.s = fn.t.s

C7_Witness ==
    /\ fn.op = "from_str"
    /\ fn.s = "PipeWire:Interface:Badger"
    /\ fn.t = Other("PipeWire:Interface:Badger")

\* C8: client_version returns the catalog's version for every closed
\* variant (3 or 0 as listed) and panics with "Invalid object type" for
\* Other(S), never returning a number for it.
C8_ClientVersion ==
    fn.op = "client_version" =>
        /\ fn.t.tag \in KnownKinds \cup {"Other"}
        /\ fn.t.tag \in Version3Kinds => ~fn.res.panic /\ fn.res.v = 3
        /\ fn.t.tag \in Version0Kinds => ~fn.res.panic /\ fn.res.v = 0
        /\ fn.t.tag = "Other" =>
              fn.res.panic /\ fn.res.msg = "Invalid object type"

C8_Witness ==
    /\ fn.op = "client_version"
    /\ fn.t = Other("PipeWire:Interface:Badger")
    /\ fn.res.panic

\* C9: from_bits succeeds on each of the 16 unions of 0o400, 0o200, 0o100,
\* 0o010 and keeps the raw bits; it fails on every raw value with a bit
\* outside that set.
C9_FromBits ==
    /\ Cardinality(ValidRaw) = 16
    /\ fn.op = "from_bits" =>
          /\ fn.raw \in ValidRaw => fn.res.some /\ fn.res.bits = fn.raw
          /\ fn.raw \notin ValidRaw => ~fn.res.some

C9_Witness ==
    /\ fn.op = "from_bits"
    /\ fn.raw = \o777
    /\ ~fn.res.some

----------------------------------------------------------------------------
(* Properties of the listener state machine (checked under Spec).          *)

Released(l) == listeners[l].state \in {"unlinked", "dropped"}

\* the events emitted while the hook of l was linked, by their number
OfferedTo(l) ==
    IF listeners[l].state = "none" THEN {}
    ELSE (listeners[l].regAt + 1) ..
         (IF Released(l) THEN listeners[l].relAt ELSE nDispatched)

\* the calls made for event number n on behalf of listener l
CallsFor(l, n) == { j \in DOMAIN calls[l] : calls[l][j].n = n }

\* an event GlobalObject construction accepts: a removed event, or an added
\* event with a UTF-8 name and no permission bit outside R|W|X|M
WellFormed(ev) ==
    \/ ev.kind = "global_remove"
    \/ ev.type_.utf8 /\ ev.permissions \in ValidRaw

\* the closure the listener stored for events of this kind
ClosureFor(l, kind) ==
    IF kind = "global" THEN listeners[l].data.global
    ELSE listeners[l].data.global_remove

\* C1: once a Listener is released, no closure of it is invoked any more,
\* whatever events follow and whatever events were waiting at the release.
C1_NoCallAfterRelease ==
    [][\A l \in Slots : Released(l) => calls'[l] = calls[l]]_vars

\* a released listener that had been called, with an event that waited at
\* its release, of a kind it subscribed to, dispatched since
C1_Witness ==
    \E l \in Slots :
        /\ listeners[l].state = "dropped"
        /\ panicked = NoPanic
        /\ Len(calls[l]) > 0
        /\ listeners[l].relAt < listeners[l].arrAtRel
        /\ nDispatched > listeners[l].relAt
        /\ SlotWired(listeners[l].events, arrived[listeners[l].relAt + 1].kind)
        /\ WellFormed(arrived[listeners[l].relAt + 1])

\* C2: a kind of event for which no closure was supplied has no slot wired
\* in the events table, never leads to a closure call and never to a panic
\* in a handler of this listener; this for added events on a removed-only
\* listener and for removed events on an added-only listener.
C2_DispatchSelectivity ==
    \A l \in Slots : \A kind \in {"global", "global_remove"} :
        (listeners[l].state # "none" /\ ClosureFor(l, kind) = None) =>
            /\ ~SlotWired(listeners[l].events, kind)
            /\ \A j \in DOMAIN calls[l] : calls[l][j].fn # kind
            /\ ~(panicked.by = l /\ arrived[panicked.at].kind = kind)

\* a removed-only listener that was offered an added event (a malformed one
\* at that) and a removed event: one call, of the removed closure, no panic
C2_Witness ==
    \E l \in Slots :
        /\ listeners[l].state = "registered"
        /\ listeners[l].data.global = None
        /\ listeners[l].data.global_remove # None
        /\ panicked = NoPanic
        /\ \E i \in OfferedTo(l) :
              arrived[i].kind = "global" /\ ~WellFormed(arrived[i])
        /\ \E i \in OfferedTo(l) : arrived[i].kind = "global_remove"
        /\ Len(calls[l]) = 1

\* C3: release has two ordered phases.  A hook that is linked has its
\* events table, its hook record and its closures allocated, and the table
\* and the closures are freed only in a step that finds the hook unlinked.
C3_UnlinkBeforeFree ==
    /\ [](\A l \in Slots :
            Linked(l) => /\ listeners[l].eventsAlloc
                         /\ listeners[l].hookAlloc
                         /\ listeners[l].dataAlloc)
    /\ [][\A l \in Slots :
            (\/ listeners[l].eventsAlloc /\ ~listeners'[l].eventsAlloc
             \/ listeners[l].dataAlloc /\ ~listeners'[l].dataAlloc)
                => ~Linked(l)]_vars

\* between the phases: the hook is unlinked, nothing is freed yet
C3_Witness ==
    \E l \in Slots :
        /\ listeners[l].state = "unlinked"
        /\ ~Linked(l)
        /\ listeners[l].eventsAlloc
        /\ listeners[l].dataAlloc

\* the statement of C4 for the events that satisfy `accepts`
OncePerEvent(accepts(_)) ==
    \A l \in Slots :
        (/\ listeners[l].state # "none"
         /\ listeners[l].data.global # None
         /\ listeners[l].data.global_remove # None) =>
            /\ \A i \in OfferedTo(l) :
                  accepts(arrived[i]) =>
                      /\ Cardinality(CallsFor(l, i)) = 1
                      /\ \A j \in CallsFor(l, i) :
                            /\ calls[l][j].fn = arrived[i].kind
                            /\ calls[l][j].closure
                                   = ClosureFor(l, arrived[i].kind)
                            /\ calls[l][j].arg.id = arrived[i].id
                            /\ calls[l][j].live
            /\ \A j \in DOMAIN calls[l] : calls[l][j].n \in OfferedTo(l)
            /\ \A j, k \in DOMAIN calls[l] :
                  j < k => calls[l][j].n < calls[l][k].n

AnyEvent(ev) == TRUE

\* C4 as stated: with both closures set, every added event and every
\* removed event offered to a registered listener causes exactly one call,
\* of the closure of its kind, with the id of the event, in delivery order.
C4_Original == OncePerEvent(AnyEvent)

\* C4 as amended: with both closures set, every removed event offered to
\* a registered listener causes exactly one call of the removed closure
\* with the id of the event, and every added event offered to it whose
\* name is valid UTF-8 and whose raw permissions hold no bit outside
\* R|W|X|M causes exactly one call of the added closure; calls are made in
\* delivery order.  (Any other added event panics in the handler before
\* the closure is looked up, and no closure is called for it.)
C4_OncePerWellFormedEvent == OncePerEvent(WellFormed)

\* both closures set; an added and then a removed event, each called once
C4_Witness ==
    \E l \in Slots :
        /\ listeners[l].state = "registered"
        /\ listeners[l].data.global # None
        /\ listeners[l].data.global_remove # None
        /\ panicked = NoPanic
        /\ Len(calls[l]) = 2
        /\ calls[l][1].fn = "global"
        /\ calls[l][1].arg.type_ = Variant("Node")
        /\ calls[l][2].fn = "global_remove"
        /\ calls[l][2].arg.id = 5

\* C10: when global() is called several times on a builder, the closure of
\* the last call is the one stored, and after register() every call made
\* for an added event is a call of that closure, never of an earlier one.
C10_LastWriteWins ==
    \A l \in Slots :
        /\ builder[l].state = "building" =>
              builder[l].cbs.global = supplied[l].last
        /\ listeners[l].state # "none" =>
              /\ listeners[l].data.global = supplied[l].last
              /\ \A j \in DOMAIN calls[l] :
                    calls[l][j].fn = "global" =>
                        calls[l][j].closure = supplied[l].last

\* g1 then g2 supplied; an added event then called g2
C10_Witness ==
    \E l \in Slots :
        /\ supplied[l].last = "g2"
        /\ supplied[l].earlier = {"g1"}
        /\ \E j \in DOMAIN calls[l] :
              calls[l][j].fn = "global" /\ calls[l][j].closure = "g2"

\* C14: an added event with a permission bit outside R|W|X|M, emitted to
\* a hook whose added slot is wired, is fatal: the handler panics with
\* "invalid permissions" while it constructs the GlobalObject, no call of
\* the added closure is made for the event, and every call of an added
\* closure that is made carries a complete descriptor whose permissions
\* are the event's raw value, inside R|W|X|M.
C14_InvalidPermissionsFatal ==
    \A l \in Slots :
        /\ \A i \in OfferedTo(l) :
              (/\ arrived[i].kind = "global"
               /\ arrived[i].type_.utf8
               /\ arrived[i].permissions \notin ValidRaw
               /\ SlotWired(listeners[l].events, "global")) =>
                  /\ CallsFor(l, i) = {}
                  /\ panicked = [by |-> l, at |-> i,
                                 msg |-> "invalid permissions"]
        /\ \A j \in DOMAIN calls[l] :
              calls[l][j].fn = "global" =>
                  /\ arrived[calls[l][j].n].permissions \in ValidRaw
                  /\ ~calls[l][j].arg.panic
                  /\ calls[l][j].arg.permissions
                         = [some |-> TRUE,
                            bits |-> arrived[calls[l][j].n].permissions]
                  /\ calls[l][j].arg.id = arrived[calls[l][j].n].id

\* a well-formed added event was delivered, then one with permissions
\* 0o701 ended the dispatch: still the one call
C14_Witness ==
    \E l \in Slots :
        /\ listeners[l].data.global # None
        /\ Len(calls[l]) = 1
        /\ calls[l][1].fn = "global"
        /\ nDispatched = 2
        /\ arrived[2].permissions = \o701
        /\ panicked = [by |-> l, at |-> 2, msg |-> "invalid permissions"]

\* C15: while a call of a closure of a Listener is in flight, the box that
\* holds the closure and the callback data is allocated, also when the
\* Listener is released from inside that call.
C15_InFlightValid ==
    \A l \in Slots :
        listeners[l].inCall # 0 => listeners[l].dataAlloc

\* the second half of C15: after a release from inside a call, no further
\* call is made for the subscription
C15_NoSubsequentCall ==
    \A l \in Slots : \A j \in DOMAIN calls[l] :
        Released(l) => calls[l][j].n <= listeners[l].relAt

\* a Listener released by its own closure; the call returned and a later
\* event of a kind it had subscribed to was dispatched since
C15_Witness ==
    \E l \in Slots :
        /\ listeners[l].state = "dropped"
        /\ listeners[l].inCall = 0
        /\ listeners[l].relAt > 0
        /\ Len(calls[l]) > 0
        /\ calls[l][Len(calls[l])].n = listeners[l].relAt
        /\ nDispatched > listeners[l].relAt
        /\ SlotWired(listeners[l].events, arrived[nDispatched].kind)
        /\ WellFormed(arrived[nDispatched])

\* C16: while a Listener is registered, the events table, the hook record
\* and the callbacks are allocated, each at the address that was handed to
\* add_listener, wherever the Listener value has been moved; the data
\* pointer handed over is the block the Listener's data box owns.
C16_StableAddresses ==
    \A l \in Slots :
        listeners[l].state = "registered" =>
            /\ listeners[l].eventsAlloc
            /\ listeners[l].hookAlloc
            /\ listeners[l].dataAlloc
            /\ listeners[l].reg.events = listeners[l].eventsAt
            /\ listeners[l].reg.hook = listeners[l].hookAt
            /\ listeners[l].reg.data = listeners[l].dataAt
            /\ listeners[l].reg.events.at = "heap"
            /\ Cardinality({listeners[l].reg.events, listeners[l].reg.hook,
                            listeners[l].reg.data}) = 3

\* a registered Listener that was moved away from where register()
\* returned it, and whose closures were called twice
C16_Witness ==
    \E l \in Slots :
        /\ listeners[l].state = "registered"
        /\ listeners[l].loc = "elsewhere"
        /\ Len(calls[l]) = 2

\* C17: a builder discarded without register() has registered nothing: no
\* Listener exists for it, no hook of it is linked and no closure given to
\* it is ever called.  The list of hooks changes by a link only in a step
\* of register(), which consumes a builder and appends exactly one hook.
C17_OnlyRegisterLinks ==
    /\ [](\A l \in Slots :
            builder[l].state = "discarded" =>
                /\ listeners[l].state = "none"
                /\ ~Linked(l)
                /\ calls[l] = <<>>)
    /\ [][/\ \A l \in Slots :
               (builder[l].state = "building"
                /\ builder'[l].state = "consumed")
                   => hooks' = Append(hooks, l)
          /\ Len(hooks') > Len(hooks) =>
               \E l \in Slots :
                   /\ builder[l].state = "building"
                   /\ builder'[l].state = "consumed"
                   /\ hooks' = Append(hooks, l)]_vars

\* a builder given both closures was discarded; an added and a removed
\* event, both well formed, were dispatched since and nothing was called
C17_Witness ==
    \E l \in Slots :
        /\ builder[l].state = "discarded"
        /\ builder[l].cbs.global # None
        /\ builder[l].cbs.global_remove # None
        /\ nDispatched = 2
        /\ arrived[1].kind = "global" /\ WellFormed(arrived[1])
        /\ arrived[2].kind = "global_remove"
        /\ calls[l] = <<>>
        /\ hooks = <<>>

----------------------------------------------------------------------------
(* Properties of the monitor (checked under SpecMon and SpecMonFair).      *)

\* C20: when MainLoop::new, Context::new or connect answers Err, monitor()
\* is left with that error: no registry is obtained, no builder and no
\* listener exist, no hook is linked, run() is never entered, and the exit
\* status of the process is not 0.
C20_StartupFailurePropagates ==
    mon.failed # "none" =>
        /\ mon.pc \in {"teardown", "exited"}
        /\ mon.result = "Err"
        /\ ~mon.hasRegistry
        /\ mon.reg = NoRc
        /\ builder[1].state = "none"
        /\ listeners[1].state = "none"
        /\ hooks = <<>>
        /\ ~mon.ran
        /\ mon.pc = "exited" => mon.exit > 0

\* connect() failed after the loop and the context were created; the
\* locals were dropped and the process exited with status 1
C20_Witness ==
    /\ mon.failed = "connect"
    /\ mon.pc = "exited"
    /\ mon.locals = <<>>
    /\ mon.loop.strong = 0
    /\ mon.exit = 1

\* C12: the loop is asked to quit on behalf of a core error exactly when
\* an error with id 0 was logged.  A step that logs an error with another
\* id asks for nothing and leaves the loop running, with every waiting
\* registry event still to be dispatched; a step that logs id 0 asks the
\* loop to quit.
C12_CoreErrorQuits ==
    /\ [](("error" \in mon.quitBy) <=> (0 \in mon.errSeen))
    /\ [][\A id \in ErrorIds :
            (id \in mon'.errSeen /\ id \notin mon.errSeen) =>
                IF id = 0
                THEN "error" \in mon'.quitBy
                ELSE /\ mon'.quitBy = mon.quitBy
                     /\ mon'.pc = "run"
                     /\ Idle'
                     /\ arrived' = arrived
                     /\ nDispatched' = nDispatched]_vars

\* an error with id 1 was logged, nobody asked the loop to quit, and the
\* loop has dispatched an event and has another one waiting
C12_Witness ==
    /\ mon.pc = "run"
    /\ mon.errSeen = {1}
    /\ mon.quitBy = {}
    /\ Idle
    /\ nDispatched = 1
    /\ Len(calls[1]) = 1
    /\ Len(arrived) = 2

\* C13 as stated, for the runs that have ended: a process that was sent
\* SIGINT or SIGTERM while its loop was running, and has exited, returned
\* Ok from monitor() and exited with status 0.
C13_Original ==
    (mon.sigSeen # {} /\ mon.pc = "exited") =>
        (mon.result = "Ok" /\ mon.exit = 0)

\* C13 as amended: a signal delivered while the loop runs is followed by
\* a quit request (of its closure, or of another closure that ran first)
\* unless a registry handler panics first, and by the exit of the process
\* in every case.  If no handler panicked
\* the loop stopped, monitor() returned Ok and the exit status is 0; if
\* one did, the process ended by abort or by the unwinding panic with a
\* status that is not 0.  run() returns only after a quit request, and a
\* quit is requested only by the closure of a delivered signal or by the
\* error closure for an error with id 0.
C13_SignalStopsLoop ==
    /\ [](mon.pc = "exited" /\ mon.ran =>
            IF panicked = NoPanic
            THEN mon.result = "Ok" /\ mon.exit = 0
            ELSE mon.result \in {"panic", "abort"} /\ mon.exit > 0)
    /\ [](mon.result = "Ok" => mon.quitBy # {})
    /\ [](/\ mon.quitBy \subseteq Signals \cup {"error"}
          /\ mon.quitBy \cap Signals \subseteq mon.sigSeen
          /\ "error" \in mon.quitBy => 0 \in mon.errSeen)
    /\ \A sig \in Signals :
          (sig \in mon.sigPending)
              ~> (mon.quitBy # {} \/ panicked # NoPanic)
    /\ (mon.sigSeen # {}) ~> (mon.pc = "exited")

\* SIGTERM was delivered after an event had been dispatched; its closure
\* asked the loop to quit, monitor() returned Ok, the process exited with 0
C13_Witness ==
    /\ mon.pc = "exited"
    /\ mon.sigSeen = {"SIGTERM"}
    /\ mon.quitBy = {"SIGTERM"}
    /\ Len(calls[1]) = 1
    /\ mon.result = "Ok"
    /\ mon.exit = 0

\* C19: whenever the registry proxy is destroyed the registry Listener has
\* been released before: its hook is unlinked and its boxes are freed in
\* the state the destroying step starts from, and a step that unlinks the
\* hook finds the Registry alive and its proxy not destroyed.  This on the
\* return of monitor() and on the unwinding of a panic alike; a monitor()
\* left in one of these ways has released the one and destroyed the other.
C19_ListenerBeforeRegistry ==
    /\ [](mon.proxyDestroyed > 0 =>
            listeners[1].state = "dropped" /\ ~Linked(1))
    /\ [][mon'.proxyDestroyed # mon.proxyDestroyed =>
            listeners[1].state = "dropped" /\ ~Linked(1)]_vars
    /\ [][Len(hooks') < Len(hooks) =>
            mon.proxyDestroyed = 0 /\ mon.reg.strong > 0]_vars
    /\ [](mon.pc = "exited" /\ mon.result \in {"Ok", "panic"} =>
            listeners[1].state = "dropped" /\ mon.proxyDestroyed > 0)

\* a handler panicked, the panic unwound out of monitor(): the Listener
\* was released, then the proxy destroyed
C19_Witness ==
    /\ mon.pc = "exited"
    /\ mon.result = "panic"
    /\ listeners[1].state = "dropped"
    /\ listeners[1].relAt > 0
    /\ mon.proxyDestroyed = 1

\* C11: the registry proxy is destroyed at most once, and it has been
\* destroyed exactly when the Registry value has been dropped, which is
\* when the last strong handle of the Arc went away; the weak handle of
\* the closure counts for nothing.  Only the step that drops the Registry
\* destroys the proxy: a step that builds, registers, dispatches to or
\* releases a listener leaves it alone.
C11_ProxyDestroyedOnce ==
    /\ [](mon.proxyDestroyed \in {0, 1})
    /\ []((mon.proxyDestroyed = 1)
            <=> (mon.hasRegistry /\ mon.reg.strong = 0))
    /\ [](mon.hasRegistry => mon.reg.strong \in {0, 1})
    /\ [][mon'.proxyDestroyed # mon.proxyDestroyed =>
            /\ mon.reg.strong = 1 /\ mon'.reg.strong = 0
            /\ mon'.proxyDestroyed = mon.proxyDestroyed + 1
            /\ <<builder, listeners, hooks, calls>>'
                  = <<builder, listeners, hooks, calls>>]_vars
    /\ [](mon.pc = "exited" /\ mon.result \in {"Ok", "panic"} =>
            mon.proxyDestroyed = 1)

\* the monitor ran, its listener was called twice and released, the
\* Registry was dropped on the return of monitor(): one destroy
C11_Witness ==
    /\ mon.pc = "exited"
    /\ mon.result = "Ok"
    /\ Len(calls[1]) = 2
    /\ listeners[1].state = "dropped"
    /\ mon.reg = NoRc
    /\ mon.proxyDestroyed = 1

----------------------------------------------------------------------------
(* Properties of the monitor's closures (checked under SpecFn).            *)

====
